---- MODULE Spec2Model ----
(***************************************************************************)
(* The generic resource controller of readinglist/resource.py: the error   *)
(* mapping decorators, the base schema with its TimeStamp field, and the   *)
(* end-points of BaseResource acting on a storage backend.                 *)
(*                                                                         *)
(* Python values are tagged with their type, so that a schema node can     *)
(* tell an integer from a string: IntVal(3) is the int 3, StrVal("x") the  *)
(* string "x".  A dict is a function from its keys to tagged values.       *)
(***************************************************************************)
EXTENDS Integers, Sequences, FiniteSets, TLC

\* ------------------------------------------------------------------ bounds
\* Largest reading of the clock (int(time.time())), which starts at 1.
MaxClock == 2
\* Number of requests issued in one behaviour.
MaxRequests == 2
\* query-string parameters of one request
MaxParams == 2

\* Record ids the router can put in request.matchdict['id'].
Ids == {"a", "b"}
\* Request-handling workers; each handles one request at a time.
Procs == {1, 2}

\* ------------------------------------------------------------------ values
IntVal(n) == [t |-> "int", v |-> n]
StrVal(s) == [t |-> "str", v |-> s]
BoolVal(b) == [t |-> "bool", v |-> b]
\* Python's None.
None == [none |-> TRUE]
\* colander.null: the value a mapping hands a child whose key is absent.
null == [null |-> TRUE]

id_field == "_id"
modified_field == "last_modified"
\* [c.name for c in self.mapping.children]
known_fields == {"_id", "last_modified"}

\* A request body that is not JSON (json.loads raises ValueError).
Malformed == [malformed |-> TRUE]
\* The JSON bodies sent: every dict over the schema's fields, and dicts with
\* a key the schema does not declare.
BodyValues(f) ==
    CASE f = "_id" -> {StrVal(i) : i \in Ids}
      [] f = "last_modified" -> {IntVal(0), StrVal("x")}
      [] OTHER -> {StrVal("t")}
\* All dicts with keys in S and values chosen per key by BodyValues.
Dicts(S) ==
    UNION {{d \in [D -> UNION {BodyValues(f) : f \in D}] :
              \A f \in D : d[f] \in BodyValues(f)} : D \in SUBSET S}
Bodies ==
    {Malformed} \cup Dicts(known_fields)
      \cup {[title |-> StrVal("t")], [title |-> StrVal("t"), last_modified |-> IntVal(0)]}

\* dict.get(key, default)
Lookup(d, key, default) == IF key \in DOMAIN d THEN d[key] ELSE default
\* d restricted to the keys in S.
Restrict(d, S) == [k \in DOMAIN d \cap S |-> d[k]]
\* d.copy(); d.update(**e)
DictUpdate(d, e) ==
    [k \in DOMAIN d \cup DOMAIN e |-> IF k \in DOMAIN e THEN e[k] ELSE d[k]]
\* d with d[key] = value
DictSet(d, key, value) ==
    [k \in DOMAIN d \cup {key} |-> IF k = key THEN value ELSE d[k]]

\* A sequence listing the elements of the finite set S once each.
RECURSIVE SetToSeq(_)
SetToSeq(S) ==
    IF S = {} THEN <<>>
    ELSE LET x == CHOOSE y \in S : TRUE IN <<x>> \o SetToSeq(S \ {x})

\* ------------------------------------------------- outcomes and responses
\* What a view does when called: it returns a value or raises an exception
\* (fields: the colander.Invalid's asdict() keys).
Return(v) == [exc |-> "none", value |-> v, fields |-> {}]
Raise(e, fs) == [exc |-> e, value |-> None, fields |-> fs]
\* request.errors of a fresh request: no entry, no status set.
NoErrors == [status |-> 0, entries |-> <<>>]
\* request.errors.add(location, name, ...)
ErrorsAdd(errors, location, name) ==
    [errors EXCEPT !.entries = Append(@, [location |-> location, name |-> name])]
RECURSIVE ErrorsAddAll(_, _, _)
ErrorsAddAll(errors, location, names) ==
    IF names = <<>> THEN errors
    ELSE ErrorsAddAll(ErrorsAdd(errors, location, Head(names)), location, Tail(names))

\* A view's effect r: r.out its outcome, r.errors the request's errors,
\* r.store the backend afterwards, r.calls the backend calls it made.
View(out, store, calls) ==
    [out |-> out, errors |-> NoErrors, store |-> store, calls |-> calls]

\* ---------------------------------------------------------- error mapping
\* exists_or_404 reporting the unknown record as a bad request.
exists_or_404_as_400(r) ==
    IF r.out.exc = "RecordNotFoundError"
    THEN [r EXCEPT !.out = Return(None),
                   !.errors = [ErrorsAdd(r.errors, "body", "id") EXCEPT !.status = 400]]
    ELSE r

\* exists_or_404 catching every exception.
exists_or_404_catch_all(r) ==
    IF r.out.exc # "none"
    THEN [r EXCEPT !.out = Return(None),
                   !.errors = [ErrorsAdd(r.errors, "path", "id") EXCEPT !.status = 404]]
    ELSE r

exists_or_404(r) ==
    IF r.out.exc = "RecordNotFoundError"
    THEN [r EXCEPT !.out = Return(None),
                   !.errors = [ErrorsAdd(r.errors, "path", "id") EXCEPT !.status = 404]]
    ELSE r

\* validates_or_400 reporting the first invalid field only.
validates_or_400_first_field(r) ==
    IF r.out.exc = "ValueError"
    THEN [r EXCEPT !.out = Return(None),
                   !.errors = [ErrorsAdd(r.errors, "body", "body") EXCEPT !.status = 400]]
    ELSE IF r.out.exc = "Invalid"
    THEN [r EXCEPT !.out = Return(None),
                   !.errors = [ErrorsAdd(r.errors, "body", Head(SetToSeq(r.out.fields)))
                                 EXCEPT !.status = 400]]
    ELSE r

\* validates_or_400 catching every exception.
validates_or_400_catch_all(r) ==
    IF r.out.exc = "Invalid"
    THEN [r EXCEPT !.out = Return(None),
                   !.errors = [ErrorsAddAll(r.errors, "body", SetToSeq(r.out.fields))
                                 EXCEPT !.status = 400]]
    ELSE IF r.out.exc # "none"
    THEN [r EXCEPT !.out = Return(None),
                   !.errors = [ErrorsAdd(r.errors, "body", "body") EXCEPT !.status = 400]]
    ELSE r

validates_or_400(r) ==
    IF r.out.exc = "ValueError"
    THEN [r EXCEPT !.out = Return(None),
                   !.errors = [ErrorsAdd(r.errors, "body", "body") EXCEPT !.status = 400]]
    ELSE IF r.out.exc = "Invalid"
    THEN [r EXCEPT !.out = Return(None),
                   !.errors = [ErrorsAddAll(r.errors, "body", SetToSeq(r.out.fields))
                                 EXCEPT !.status = 400]]
    ELSE r

\* ------------------------------------------------------------------ schema
\* A schema node's result: the appstruct, or the node is invalid.
Valid(v) == [ok |-> TRUE, value |-> v]
Invalid == [ok |-> FALSE, value |-> null]

\* colander.Integer on a cstruct that is not null.
IntegerDeserialize(cstruct) ==
    IF cstruct.t = "int" THEN Valid(cstruct) ELSE Invalid

\* colander.String on a cstruct; an empty or absent one gives null.
StringDeserialize(cstruct) ==
    IF cstruct = null THEN Valid(null)
    ELSE IF cstruct.t = "str"
         THEN (IF cstruct.v = "" THEN Valid(null) ELSE Valid(cstruct))
         ELSE Valid(StrVal(ToString(cstruct.v)))

\* TimeStamp.now(), read off the clock.
TimeStampNow(now) == IntVal(now)

\* TimeStamp.deserialize; the node is required (it declares no missing).
TimeStampDeserialize(cstruct, now) ==
    IntegerDeserialize(IF cstruct = null THEN TimeStampNow(now) ELSE cstruct)

\* RessourceSchema().deserialize on a dict: each child gets its key's value
\* or null, a null _id is dropped (missing=drop), unknown keys are ignored.
RessourceSchema(cstruct, now) ==
    LET idn == StringDeserialize(Lookup(cstruct, id_field, null))
        lm  == TimeStampDeserialize(Lookup(cstruct, modified_field, null), now)
        bad == {f \in known_fields :
                   \/ f = id_field /\ ~idn.ok
                   \/ f = modified_field /\ ~lm.ok}
        kept == {f \in known_fields : ~(f = id_field /\ idn.value = null)}
    IN  IF bad # {} THEN Raise("Invalid", bad)
        ELSE Return([f \in kept |-> IF f = id_field THEN idn.value ELSE lm.value])

\* BaseResource.deserialize
deserialize(raw) ==
    IF raw = Malformed THEN Raise("ValueError", {}) ELSE Return(raw)

\* BaseResource.validate
validate(record, now) == RessourceSchema(record, now)

\* ----------------------------------------------------------------- backend
\* db.get
db_get(store, record_id) ==
    IF record_id \in DOMAIN store
    THEN Return(store[record_id])
    ELSE Raise("RecordNotFoundError", {})

\* db.update: full replace, upsert by id.
db_update(store, record_id, record) == DictSet(store, record_id, record)

\* db.create: the record is stored under its own id when it carries one and
\* under a generated id, which it is given, otherwise.
db_create_id(record, generated) ==
    IF id_field \in DOMAIN record THEN record[id_field].v ELSE generated
db_create_record(record, generated) ==
    DictSet(record, id_field, StrVal(db_create_id(record, generated)))
db_create(store, record, generated) ==
    DictSet(store, db_create_id(record, generated), db_create_record(record, generated))

\* db.delete
db_delete(store, record_id) == [k \in DOMAIN store \ {record_id} |-> store[k]]

\* -------------------------------------------------------------- end-points
\* collection_post creating the record before it validates it.
collection_post_create_first(store, raw, now, generated) ==
    LET new_record == deserialize(raw)
        validated == validate(new_record.value, now)
        unchecked == Restrict(new_record.value, {id_field})
    IN  IF new_record.exc # "none" THEN View(new_record, store, <<>>)
        ELSE IF validated.exc # "none"
        THEN View(validated, db_create(store, unchecked, generated), <<"create">>)
        ELSE View(Return(db_create_record(validated.value, generated)),
                  db_create(store, validated.value, generated), <<"create">>)

\* The bodies of the views, before their decorators.
collection_post(store, raw, now, generated) ==
    LET new_record == deserialize(raw)
        validated == validate(new_record.value, now)
    IN  IF new_record.exc # "none" THEN View(new_record, store, <<>>)
        ELSE IF validated.exc # "none" THEN View(validated, store, <<>>)
        ELSE View(Return(db_create_record(validated.value, generated)),
                  db_create(store, validated.value, generated), <<"create">>)

get(store, record_id) == View(db_get(store, record_id), store, <<"get">>)

\* put replacing the record before it validates the new one.
put_update_first(store, record_id, raw, now) ==
    LET new_record == deserialize(raw)
        validated == validate(new_record.value, now)
        unchecked == Restrict(new_record.value, {id_field})
    IN  IF new_record.exc # "none" THEN View(new_record, store, <<>>)
        ELSE IF validated.exc # "none"
        THEN View(validated, db_update(store, record_id, unchecked), <<"update">>)
        ELSE View(Return(validated.value),
                  db_update(store, record_id, validated.value), <<"update">>)

put(store, record_id, raw, now) ==
    LET new_record == deserialize(raw)
        validated == validate(new_record.value, now)
    IN  IF new_record.exc # "none" THEN View(new_record, store, <<>>)
        ELSE IF validated.exc # "none" THEN View(validated, store, <<>>)
        ELSE View(Return(validated.value),
                  db_update(store, record_id, validated.value), <<"update">>)

delete(store, record_id) ==
    LET found == db_get(store, record_id)
    IN  IF found.exc # "none" THEN View(found, store, <<"delete">>)
        ELSE View(found, db_delete(store, record_id), <<"delete">>)

\* patch merging the record read onto the body.
patch_merge_reversed(record, modified, now) ==
    DictSet(DictUpdate(modified, record), modified_field, TimeStampNow(now))

\* patch, lines 180-184: the body merged onto the record read, stamped.
patch_merge(record, modified, now) ==
    DictSet(DictUpdate(record, modified), modified_field, TimeStampNow(now))

\* patch up to its validation: the record to hand to db.update, or a raise.
patch_updated(record, raw, now) ==
    LET modified == deserialize(raw)
    IN  IF modified.exc # "none" THEN modified
        ELSE validate(patch_merge(record, modified.value, now), now)

\* patch writing only a record stamped later than the one stored.
patch_store_if_newer(store, record_id, merged) ==
    IF /\ record_id \in DOMAIN store
       /\ store[record_id][modified_field].v >= merged[modified_field].v
    THEN store
    ELSE db_update(store, record_id, merged)

\* patch, lines 186-188: self.db.update(record_id=record_id, record=updated)
patch_store(store, record_id, merged) == db_update(store, record_id, merged)

\* The decorated views.
CollectionPostView(store, raw, now, generated) ==
    validates_or_400(collection_post(store, raw, now, generated))
GetView(store, record_id) == exists_or_404(get(store, record_id))
PutView(store, record_id, raw, now) ==
    exists_or_404(validates_or_400(put(store, record_id, raw, now)))
DeleteView(store, record_id) == exists_or_404(delete(store, record_id))
PatchView(r) == exists_or_404(validates_or_400(r))

\* ------------------------------------------------------- query translation
\* A query-string value is the sequence of its characters.
WordChars == {"0", "1", "a", "b", "e", "f", "n", "o", "s", "y", "Y"}
Digits == {"0", "1"}
Lower(c) == IF c = "Y" THEN "y" ELSE c
lower(s) == [i \in 1..Len(s) |-> Lower(s[i])]

Digit(c) == IF c = "1" THEN 1 ELSE 0
RECURSIVE Number(_)
Number(s) ==
    IF s = <<>> THEN 0
    ELSE 10 * Number(SubSeq(s, 1, Len(s) - 1)) + Digit(s[Len(s)])

\* The raw values of the requests, and the names of their parameters.
QueryValues ==
    { <<>>,
      <<"1">>, <<"1", "0", "0">>,
      <<"Y", "e", "s">>, <<"o", "f", "f">>,
      <<"a">>, <<"a", " ", "b">>, <<"a", "-", "b">>,
      <<"-", "a", ",", "b">>, <<"-", "a", ",", " ", "+", "b", " ">>,
      <<"-", "+", "a", ",", "b">> }
QueryNames == {"foo", "since", "sort"}

\* request.GET: parameters in the order of the query string, names distinct.
RECURSIVE QueryParams(_)
QueryParams(n) ==
    IF n = 0 THEN {<<>>}
    ELSE LET shorter == QueryParams(n - 1)
         IN  shorter \cup
             {Append(q, [name |-> k, value |-> v]) :
                 q \in {x \in shorter : Len(x) = n - 1},
                 k \in QueryNames, v \in QueryValues}
Names(q) == {q[i].name : i \in 1..Len(q)}
Queries == {q \in QueryParams(MaxParams) : Cardinality(Names(q)) = Len(q)}

\* queryparams.get(name, default)
QueryGet(q, name, default) ==
    IF name \in Names(q)
    THEN q[CHOOSE i \in 1..Len(q) : q[i].name = name].value
    ELSE default

\* The fields a resource knows: those of RessourceSchema, or of a schema
\* that adds foo, or foo and since, to them.
Resources ==
    {known_fields, known_fields \cup {"foo"}, known_fields \cup {"foo", "since"}}

\* Two names or numbers with only a space between them.
Juxtaposed(s) ==
    \E i \in 2..(Len(s) - 1) :
        s[i] = " " /\ s[i - 1] \in WordChars /\ s[i + 1] \in WordChars
IsNumber(s) ==
    /\ s # <<>>
    /\ \A i \in 1..Len(s) : s[i] \in Digits
    /\ Len(s) = 1 \/ s[1] # "0"
\* ast.literal_eval on the values of QueryValues and on what is not a
\* string: no source text is a SyntaxError, and so are two names in a row; a
\* number is its value; names under signs, minus and commas are an
\* expression that is no literal, a ValueError, as is a value that is no
\* string and no node.
literal_eval(node_or_string) ==
    IF node_or_string.t # "str" THEN Raise("ValueError", {})
    ELSE LET string == node_or_string.v
         IN  IF string = <<>> \/ Juxtaposed(string) THEN Raise("SyntaxError", {})
             ELSE IF IsNumber(string) THEN Return(IntVal(Number(string)))
             ELSE Raise("ValueError", {})

TrueTokens == {<<"o", "n">>, <<"t", "r", "u", "e">>, <<"y", "e", "s">>, <<"1">>}
FalseTokens == {<<"o", "f", "f">>, <<"f", "a", "l", "s", "e">>, <<"n", "o">>, <<"0">>}

\* __decode_filter_value parsing the literal before it looks for a boolean.
decode_literal_first(raw) ==
    LET parsed == literal_eval(StrVal(raw))
    IN  IF parsed.exc = "none" THEN parsed
        ELSE IF lower(raw) \in TrueTokens THEN Return(BoolVal(TRUE))
        ELSE IF lower(raw) \in FalseTokens THEN Return(BoolVal(FALSE))
        ELSE IF parsed.exc = "ValueError" THEN Return(StrVal(raw))
        ELSE parsed

__decode_filter_value(raw) ==
    LET value == IF lower(raw) \in TrueTokens THEN BoolVal(TRUE)
                 ELSE IF lower(raw) \in FalseTokens THEN BoolVal(FALSE)
                 ELSE StrVal(raw)
        parsed == literal_eval(value)
    IN  IF parsed.exc = "ValueError" THEN Return(value) ELSE parsed

RECURSIVE _extract_filters(_, _)
_extract_filters(known, queryparams) ==
    IF queryparams = <<>> THEN Return(<<>>)
    ELSE LET n == Len(queryparams)
             filters == _extract_filters(known, SubSeq(queryparams, 1, n - 1))
             param == queryparams[n].name
             value == __decode_filter_value(queryparams[n].value)
         IN  IF filters.exc # "none" THEN filters
             ELSE IF value.exc # "none" THEN value
             ELSE Return(filters.value
                           \o (IF param \in known
                               THEN << <<param, value.value, "==">> >> ELSE <<>>)
                           \o (IF param = "since"
                               THEN << <<modified_field, value.value, ">=">> >>
                               ELSE <<>>))

\* str.split(',')
RECURSIVE split(_)
split(s) ==
    IF \E i \in 1..Len(s) : s[i] = ","
    THEN LET i == CHOOSE i \in 1..Len(s) : s[i] = "," /\ \A j \in 1..(i - 1) : s[j] # ","
         IN  <<SubSeq(s, 1, i - 1)>> \o split(SubSeq(s, i + 1, Len(s)))
    ELSE <<s>>

\* The longest run of word characters of s from position i on.
RECURSIVE WordRun(_, _)
WordRun(s, i) ==
    IF i > Len(s) \/ s[i] \notin WordChars THEN <<>>
    ELSE <<s[i]>> \o WordRun(s, i + 1)

\* re.match(r'\s?([\-+]?)(\w+)\s?', field): the match starts at the start of
\* field and may end before its end.  The three classes are disjoint, so
\* giving back the space or the sign never finds another match.
re_match(field) ==
    LET start == IF field # <<>> /\ field[1] = " " THEN 2 ELSE 1
        signed == start <= Len(field) /\ field[start] \in {"-", "+"}
        order == IF signed THEN field[start] ELSE ""
        word == WordRun(field, IF signed THEN start + 1 ELSE start)
    IN  IF word = <<>> THEN None ELSE [order |-> order, field |-> word]

RECURSIVE Sorting(_)
Sorting(specified) ==
    IF specified = <<>> THEN <<>>
    ELSE LET m == re_match(Head(specified))
             direction == IF m.order = "-" THEN -1 ELSE 1
         IN  (IF m # None THEN << <<m.field, direction>> >> ELSE <<>>)
               \o Sorting(Tail(specified))

_extract_sorting(queryparams) == Sorting(split(QueryGet(queryparams, "sort", <<>>)))

\* The backend's get_all: filtering and ordering are its own, so it returns
\* any list of records it stores, none of them twice.
db_get_all(s) ==
    LET stored == {s[k] : k \in DOMAIN s}
    IN  {l \in UNION {[1..n -> stored] : n \in 0..Cardinality(stored)} :
            \A i, j \in 1..Len(l) : l[i] = l[j] => i = j}

\* collection_get taking total from a count of the whole collection.
collection_get_count_all(s, known, queryparams, records) ==
    LET filters == _extract_filters(known, queryparams)
    IN  IF filters.exc # "none"
        THEN [out |-> filters, errors |-> NoErrors, store |-> s, calls |-> <<>>,
              passed |-> None, fetched |-> <<>>]
        ELSE [out |-> Return([items |-> records,
                              meta |-> [total |-> Cardinality(DOMAIN s)]]),
              errors |-> NoErrors, store |-> s, calls |-> <<"get_all">>,
              passed |-> [filters |-> filters.value,
                          sorting |-> _extract_sorting(queryparams)],
              fetched |-> records]

\* records is what db.get_all returns if it is called.
collection_get(s, known, queryparams, records) ==
    LET filters == _extract_filters(known, queryparams)
    IN  IF filters.exc # "none"
        THEN [out |-> filters, errors |-> NoErrors, store |-> s, calls |-> <<>>,
              passed |-> None, fetched |-> <<>>]
        ELSE [out |-> Return([items |-> records, meta |-> [total |-> Len(records)]]),
              errors |-> NoErrors, store |-> s, calls |-> <<"get_all">>,
              passed |-> [filters |-> filters.value,
                          sorting |-> _extract_sorting(queryparams)],
              fetched |-> records]

\* ------------------------------------------------------------------- state
VARIABLES
    store,      \* the backend's records, by id
    clock,      \* int(time.time())
    nreq,       \* requests received so far
    pc,         \* per worker: "idle", where its patch stands, or "done"
    req,        \* per worker: the patch request it is handling
    record,     \* per worker: self.record, read by the patch
    updated,    \* per worker: the validated record the patch will store
    last        \* the request just completed, with its response

vars == <<store, clock, nreq, pc, req, record, updated, last>>

NoId == "-"
NoRequest == [id |-> NoId, body |-> None]
\* No response is waiting to be sent.
NoResponse ==
    [op |-> "none", id |-> NoId, body |-> None, status |-> 0, entries |-> <<>>,
     exc |-> "none", value |-> None, calls |-> <<>>, now |-> 0, before |-> <<>>,
     passed |-> None, fetched |-> <<>>]

\* The backend outlives the resources built on it, one per request: it
\* starts with any records created earlier, each carrying its own id and
\* stamped with the clock's first reading.
InitialStore(D) ==
    [k \in D |-> [f \in known_fields |-> IF f = id_field THEN StrVal(k) ELSE IntVal(1)]]

Init ==
    /\ store \in {InitialStore(D) : D \in SUBSET Ids}
    /\ clock = 1
    /\ nreq = 0
    /\ pc = [p \in Procs |-> "idle"]
    /\ req = [p \in Procs |-> NoRequest]
    /\ record = [p \in Procs |-> None]
    /\ updated = [p \in Procs |-> None]
    /\ last = NoResponse

\* A completed request with its response, as the dispatch layer sees it:
\* r the decorated view's effect, now the clock when its last step ran and
\* before the backend as that step found it.
Response(op, id, body, r, now, before) ==
    [op |-> op, id |-> id, body |-> body, status |-> r.errors.status,
     entries |-> r.errors.entries, exc |-> r.out.exc, value |-> r.out.value,
     calls |-> r.calls, now |-> now, before |-> before,
     passed |-> None, fetched |-> <<>>]

\* The dispatcher hands a new request to the first idle worker.
Accept(p) ==
    /\ last = NoResponse
    /\ pc[p] = "idle"
    /\ \A q \in Procs : q < p => pc[q] # "idle"
    /\ nreq < MaxRequests
    /\ nreq' = nreq + 1

\* Worker p's view has returned r.
Complete(p, op, id, body, r) ==
    /\ last' = Response(op, id, body, r, clock, store)
    /\ pc' = [pc EXCEPT ![p] = "done"]

\* The dispatch layer sends the response as soon as the view has returned,
\* before any worker takes another step, and the worker is free again.
Respond ==
    /\ last # NoResponse
    /\ last' = NoResponse
    /\ pc' = [p \in Procs |-> IF pc[p] = "done" THEN "idle" ELSE pc[p]]
    /\ req' = [p \in Procs |-> IF pc[p] = "done" THEN NoRequest ELSE req[p]]
    /\ record' = [p \in Procs |-> IF pc[p] = "done" THEN None ELSE record[p]]
    /\ updated' = [p \in Procs |-> IF pc[p] = "done" THEN None ELSE updated[p]]
    /\ UNCHANGED <<store, clock, nreq>>

\* time passes
Tick ==
    /\ last = NoResponse
    /\ clock < MaxClock
    /\ clock' = clock + 1
    /\ UNCHANGED <<store, nreq, pc, req, record, updated, last>>

\* A body whose _id the backend already holds is not posted, and a generated
\* id is a fresh one: db.create always adds a record.
CollectionPost(p) ==
    /\ Accept(p)
    /\ \E raw \in Bodies, generated \in Ids :
         LET r == CollectionPostView(store, raw, clock, generated)
         IN  /\ r.calls # <<>> => DOMAIN r.store # DOMAIN store
             /\ store' = r.store
             /\ Complete(p, "collection_post", NoId, raw, r)
    /\ UNCHANGED <<clock, req, record, updated>>

Get(p) ==
    /\ Accept(p)
    /\ \E id \in Ids :
         LET r == GetView(store, id)
         IN  /\ store' = r.store
             /\ Complete(p, "get", id, None, r)
    /\ UNCHANGED <<clock, req, record, updated>>

Put(p) ==
    /\ Accept(p)
    /\ \E id \in Ids, raw \in Bodies :
         LET r == PutView(store, id, raw, clock)
         IN  /\ store' = r.store
             /\ Complete(p, "put", id, raw, r)
    /\ UNCHANGED <<clock, req, record, updated>>

Delete(p) ==
    /\ Accept(p)
    /\ \E id \in Ids :
         LET r == DeleteView(store, id)
         IN  /\ store' = r.store
             /\ Complete(p, "delete", id, None, r)
    /\ UNCHANGED <<clock, req, record, updated>>

\* patch, line 178: self.record = self.db.get(...)
PatchGet(p) ==
    /\ Accept(p)
    /\ \E id \in Ids, raw \in Bodies :
         LET found == db_get(store, id)
         IN  /\ req' = [req EXCEPT ![p] = [id |-> id, body |-> raw]]
             /\ IF found.exc # "none"
                THEN /\ Complete(p, "patch", id, raw,
                                 PatchView(View(found, store, <<"get">>)))
                     /\ UNCHANGED record
                ELSE /\ pc' = [pc EXCEPT ![p] = "merge"]
                     /\ record' = [record EXCEPT ![p] = found.value]
                     /\ UNCHANGED last
    /\ UNCHANGED <<store, clock, updated>>

\* patch, lines 180-184: deserialize, merge, stamp, validate
PatchMerge(p) ==
    /\ last = NoResponse
    /\ pc[p] = "merge"
    /\ LET u == patch_updated(record[p], req[p].body, clock)
       IN  IF u.exc # "none"
           THEN /\ Complete(p, "patch", req[p].id, req[p].body,
                            PatchView(View(u, store, <<"get">>)))
                /\ UNCHANGED updated
           ELSE /\ pc' = [pc EXCEPT ![p] = "update"]
                /\ updated' = [updated EXCEPT ![p] = u.value]
                /\ UNCHANGED last
    /\ UNCHANGED <<store, clock, nreq, req, record>>

\* patch, lines 186-189: record = self.db.update(...); return record
PatchUpdate(p) ==
    /\ last = NoResponse
    /\ pc[p] = "update"
    /\ store' = patch_store(store, req[p].id, updated[p])
    /\ Complete(p, "patch", req[p].id, req[p].body,
                PatchView(View(Return(store'[req[p].id]), store', <<"get", "update">>)))
    /\ UNCHANGED <<clock, nreq, req, record, updated>>

Next ==
    \/ Tick
    \/ Respond
    \/ \E p \in Procs :
         \/ CollectionPost(p)
         \/ Get(p)
         \/ Put(p)
         \/ Delete(p)
         \/ PatchGet(p)
         \/ PatchMerge(p)
         \/ PatchUpdate(p)

Spec == Init /\ [][Next]_vars

\* The workers handle patch requests only.
PatchNext ==
    \/ Tick
    \/ Respond
    \/ \E p \in Procs :
         \/ PatchGet(p)
         \/ PatchMerge(p)
         \/ PatchUpdate(p)

PatchSpec == Init /\ [][PatchNext]_vars

\* The decorators around any view.  A view returns a record or raises: one
\* of the exceptions the decorators catch, a colander.Invalid naming any
\* fields of a schema, or an exception they do not name.
SchemaFields == known_fields \cup {"title"}
ViewOutcomes(s) ==
    {Return(s[k]) : k \in DOMAIN s}
      \cup {Raise(e, {}) : e \in {"RecordNotFoundError", "ValueError", "KeyError"}}
      \cup {Raise("Invalid", fs) : fs \in SUBSET SchemaFields \ {{}}}
\* @exists_or_404(), @validates_or_400(), or both as on put and patch.
Decorators == {"exists_or_404", "validates_or_400", "both"}
Decorated(stack, r) ==
    CASE stack = "exists_or_404" -> exists_or_404(r)
      [] stack = "validates_or_400" -> validates_or_400(r)
      [] OTHER -> exists_or_404(validates_or_400(r))

\* A decorated view is called; last.op names its decorators and last.body
\* is what the view itself did.
Wrapped(p) ==
    /\ Accept(p)
    /\ \E stack \in Decorators, out \in ViewOutcomes(store) :
         Complete(p, stack, NoId, out, Decorated(stack, View(out, store, <<>>)))
    /\ UNCHANGED <<store, clock, req, record, updated>>

WrappedNext ==
    \/ Tick
    \/ Respond
    \/ \E p \in Procs : Wrapped(p)

WrappedSpec == Init /\ [][WrappedNext]_vars

\* A listing: the resource's fields, the query string, and the list the
\* backend answers with; last.passed is what get_all was handed and
\* last.fetched what it returned.
CollectionGet(p) ==
    /\ Accept(p)
    /\ \E known \in Resources, queryparams \in Queries, records \in db_get_all(store) :
         LET r == collection_get(store, known, queryparams, records)
         IN  /\ last' = [Response("collection_get", NoId,
                                  [GET |-> queryparams, known_fields |-> known],
                                  r, clock, store)
                           EXCEPT !.passed = r.passed, !.fetched = r.fetched]
             /\ pc' = [pc EXCEPT ![p] = "done"]
    /\ UNCHANGED <<store, clock, req, record, updated>>

QueryNext ==
    \/ Respond
    \/ \E p \in Procs : CollectionGet(p)

QuerySpec == Init /\ [][QueryNext]_vars

\* ------------------------------------------------------------------ claims
PathIdError == <<[location |-> "path", name |-> "id"]>>
\* A body json.loads or the schema refuses.
BadBody(raw) ==
    \/ raw = Malformed
    \/ modified_field \in DOMAIN raw /\ raw[modified_field].t # "int"
\* The request just completed wrote to the backend and reported no error.
Wrote(ops) == last.op \in ops /\ last.status = 0 /\ last.calls # <<>>
\* The record stored under k in s carries k as its id.
CarriesId(s, k) ==
    k \in DOMAIN s /\ id_field \in DOMAIN s[k] /\ s[k][id_field] = StrVal(k)
\* d without its last_modified.
ButModified(d) == Restrict(d, DOMAIN d \ {modified_field})

\* C1: a get whose id the backend does not hold ends with status 404 and
\* exactly one error entry, at location path under the name id; the
\* RecordNotFoundError does not leave the view, which returns None.
C1_GetAbsent == last.op = "get" /\ last.id \notin DOMAIN last.before
C1_GetAbsentIs404 ==
    C1_GetAbsent =>
        /\ last.status = 404
        /\ last.entries = PathIdError
        /\ last.exc = "none"
        /\ last.value = None
C1_Witness == C1_GetAbsent /\ last.calls = <<"get">> /\ store # <<>>

\* C2: a collection_post whose body is not JSON or violates the schema ends
\* with status 400 and creates nothing: db.create is not called and the
\* backend holds what it held before.
C2_BadPost == last.op = "collection_post" /\ BadBody(last.body)
C2_BadPostCreatesNothing ==
    C2_BadPost =>
        /\ last.status = 400
        /\ last.calls = <<>>
        /\ store = last.before
C2_Witness == C2_BadPost /\ last.body # Malformed /\ DOMAIN store # Ids

\* C3: a put with a valid body whose id the backend does not hold ends with
\* status 404 and one path error under the name id.
C3_PutAbsentIs404 ==
    (last.op = "put" /\ ~BadBody(last.body) /\ last.id \notin DOMAIN last.before) =>
        /\ last.status = 404
        /\ last.entries = PathIdError

\* C4: across collection_post, put and patch requests that do not overlap,
\* the clock never going back, a record's stored last_modified never
\* decreases from one successful write to the next, whatever the bodies.
\* The write just completed overlapped no other request: no other worker is
\* at work, and a patch found at its update the record it had read.
C4_SequentialWrite ==
    /\ Wrote({"collection_post", "put", "patch"})
    /\ \A p \in Procs : pc[p] \in {"idle", "done"}
    /\ last.op = "patch" =>
          /\ last.id \in DOMAIN last.before
          /\ \A p \in Procs : pc[p] = "done" => record[p] = last.before[last.id]
C4_LastModifiedNeverDecreases ==
    C4_SequentialWrite =>
        \A k \in DOMAIN store \cap DOMAIN last.before :
            store[k][modified_field].v >= last.before[k][modified_field].v

\* C5: after a put or a patch addressed to an id whose record carries that
\* id, whatever the body, the record stored under the id still carries it.
C5_IdImmutable ==
    (Wrote({"put", "patch"}) /\ CarriesId(last.before, last.id)) =>
        CarriesId(store, last.id)

\* C6: every record the backend holds has its id field and its
\* last_modified field populated.
C6_IdAndLastModifiedPopulated ==
    \A k \in DOMAIN store : {id_field, modified_field} \subseteq DOMAIN store[k]

\* C7: a successful patch leaves the stored last_modified at a reading of
\* the clock that differs from the last_modified of the record it read,
\* whatever last_modified the body carries.
C7_PatchStampsDistinctNow ==
    \A p \in Procs :
        (pc[p] = "done" /\ Wrote({"patch"})) =>
            /\ store[last.id][modified_field] \in {IntVal(t) : t \in 1..clock}
            /\ store[last.id][modified_field] # record[p][modified_field]

\* C8 as stated: in the record a patch hands to db.update every field the
\* body names has the body's value, and every field of the record read that
\* the body does not name, last_modified apart, keeps its value.
KeepsUnnamed(read, body, merged) ==
    \A f \in DOMAIN read \ (DOMAIN body \cup {modified_field}) :
        f \in DOMAIN merged /\ merged[f] = read[f]
C8_Stated(read, body, merged) ==
    /\ \A f \in DOMAIN body : f \in DOMAIN merged /\ merged[f] = body[f]
    /\ KeepsUnnamed(read, body, merged)
C8_Amended(read, body, merged, now) ==
    /\ merged[modified_field] = IntVal(now)
    /\ \A f \in (DOMAIN body \cap known_fields) \ {modified_field} :
          f \in DOMAIN merged /\ merged[f] = body[f]
    /\ \A f \in DOMAIN body \ known_fields : f \notin DOMAIN merged
    /\ KeepsUnnamed(read, body, merged)
C9_Overtaken(p) ==
    /\ pc[p] = "done"
    /\ last.op = "patch"
    /\ last.calls = <<"get", "update">>
    /\ last.id \in DOMAIN last.before
    /\ last.before[last.id] # record[p]
C10_SamePutTwice ==
    \A id \in Ids, raw \in Bodies, later \in clock..MaxClock :
        LET first == PutView(store, id, raw, clock)
            second == PutView(first.store, id, raw, later)
        IN  first.errors.status = 0 =>
                /\ second.errors.status = 0
                /\ ButModified(second.store[id]) = ButModified(first.store[id])
                /\ first.store[id][modified_field] = IntVal(clock)
                /\ second.store[id][modified_field] = IntVal(later)

\* C11: a RecordNotFoundError, ValueError or colander.Invalid raised inside
\* get, put, patch, delete or collection_post never leaves the view: the
\* view returns None and the response has one status, 404 with the path
\* error on id for the first and 400 with body errors for the others; a
\* patch whose record is not found ends 404 whatever its body, and a
\* request in which none is raised sets no status.
\* The worker whose patch just completed had found its record.
PatchFound == \E p \in Procs : pc[p] = "done" /\ record[p] # None
C11_NotFound ==
    \/ last.op \in {"get", "delete"} /\ last.id \notin DOMAIN last.before
    \/ last.op = "patch" /\ ~PatchFound
C11_Rejected ==
    \/ last.op \in {"collection_post", "put"} /\ BadBody(last.body)
    \/ last.op = "patch" /\ PatchFound /\ last.body = Malformed
C18_Refused ==
    \/ last.op = "put" /\ BadBody(last.body)
    \/ last.op = "patch" /\ PatchFound /\ last.body = Malformed
C20_NoResurrection ==
    (last.op = "patch" /\ PatchFound /\ last.id \notin DOMAIN last.before) =>
        last.id \notin DOMAIN store

\* C16: under validates_or_400 a colander.Invalid naming several fields is
\* reported whole: one body error per field named, and status 400; a plain
\* ValueError gets the single body error named body, and status 400.
C16_Validating == last.op \in {"validates_or_400", "both"}
C16_AllInvalidFieldsReported ==
    C16_Validating =>
        /\ last.body.exc = "Invalid" =>
              /\ last.status = 400
              /\ Len(last.entries) = Cardinality(last.body.fields)
              /\ {last.entries[i].name : i \in 1..Len(last.entries)} = last.body.fields
              /\ \A i \in 1..Len(last.entries) : last.entries[i].location = "body"
        /\ last.body.exc = "ValueError" =>
              /\ last.status = 400
              /\ last.entries = <<[location |-> "body", name |-> "body"]>>
C16_Witness ==
    /\ C16_Validating
    /\ last.body.exc = "Invalid"
    /\ Cardinality(last.body.fields) > 1
    /\ last.status = 400

\* C19: an exception that is none of RecordNotFoundError, ValueError and
\* colander.Invalid leaves either decorator, and both together, as it was
\* raised, with no error entry and no status; and what a view returns is
\* returned unchanged, with no error entry and no status.
C19_Untouched ==
    last.op \in Decorators /\ last.body.exc \in {"KeyError", "none"}
C19_UnmappedPropagates ==
    C19_Untouched =>
        /\ last.exc = last.body.exc
        /\ last.value = last.body.value
        /\ last.status = 0
        /\ last.entries = <<>>
C19_Witness == C19_Untouched /\ last.op = "both" /\ last.body.exc = "KeyError"

\* A listing that came back with a body, and its request.
Listed == last.op = "collection_get" /\ last.exc = "none"
RawOf(name) == QueryGet(last.body.GET, name, <<>>)

\* C12: decoding a filter value never fails, whatever makes the literal
\* parse fail, so collection_get completes without an exception for every
\* query string.
C12_CollectionGetNeverRaises == last.op = "collection_get" => last.exc = "none"

\* The decoded value of a raw value: a boolean for a boolean token, else
\* the literal it spells, else the raw string.
Decoded(raw) ==
    IF lower(raw) \in TrueTokens THEN BoolVal(TRUE)
    ELSE IF lower(raw) \in FalseTokens THEN BoolVal(FALSE)
    ELSE IF IsNumber(raw) THEN IntVal(Number(raw))
    ELSE StrVal(raw)
RECURSIVE ExpectedFilters(_, _)
ExpectedFilters(known, q) ==
    IF q = <<>> THEN <<>>
    ELSE LET n == Len(q)
         IN  ExpectedFilters(known, SubSeq(q, 1, n - 1))
               \o (IF q[n].name \in known
                   THEN << <<q[n].name, Decoded(q[n].value), "==">> >> ELSE <<>>)
               \o (IF q[n].name = "since"
                   THEN << <<"last_modified", Decoded(q[n].value), ">=">> >> ELSE <<>>)
\* C13: for every query-parameter mapping _extract_filters returns, in
\* parameter order, an equality filter for each known field and then a
\* last_modified >= filter for since, and nothing else.
C13_FiltersForEveryMapping ==
    last.op = "collection_get" =>
        /\ last.exc = "none"
        /\ last.passed.filters = ExpectedFilters(last.body.known_fields, last.body.GET)
\* The same of the mappings _extract_filters returns for.
C13_FiltersWhenReturned ==
    Listed => last.passed.filters = ExpectedFilters(last.body.known_fields, last.body.GET)

\* The raw value a filter was decoded from: names are distinct and
\* last_modified is no parameter, so >= comes from since and == from its
\* own field.
FilterRaw(f) == RawOf(IF f[3] = ">=" THEN "since" ELSE f[1])
Precedence ==
    Listed =>
        \A i \in 1..Len(last.passed.filters) :
            LET f == last.passed.filters[i]
                raw == FilterRaw(f)
            IN  /\ lower(raw) \in TrueTokens => f[2] = BoolVal(TRUE)
                /\ lower(raw) \in FalseTokens => f[2] = BoolVal(FALSE)
                /\ (lower(raw) \notin TrueTokens \cup FalseTokens /\ IsNumber(raw))
                      => f[2] = IntVal(Number(raw))
FooOneSinceHundred ==
    /\ Listed
    /\ last.body.known_fields = known_fields \cup {"foo"}
    /\ last.body.GET = << [name |-> "foo", value |-> <<"1">>],
                          [name |-> "since", value |-> <<"1", "0", "0">>] >>
Unspaced(t) ==
    LET a == IF t # <<>> /\ t[1] = " " THEN Tail(t) ELSE t
    IN  IF a # <<>> /\ a[Len(a)] = " " THEN SubSeq(a, 1, Len(a) - 1) ELSE a
Unsigned(t) ==
    LET b == Unspaced(t)
    IN  IF b # <<>> /\ b[1] \in {"-", "+"} THEN Tail(b) ELSE b
MatchesPattern(t) ==
    Unsigned(t) # <<>> /\ \A i \in 1..Len(Unsigned(t)) : Unsigned(t)[i] \in WordChars
RECURSIVE ExpectedSorting(_)
ExpectedSorting(tokens) ==
    IF tokens = <<>> THEN <<>>
    ELSE LET t == Head(tokens)
         IN  (IF MatchesPattern(t)
              THEN << <<Unsigned(t), IF Unspaced(t)[1] = "-" THEN -1 ELSE 1>> >>
              ELSE <<>>)
               \o ExpectedSorting(Tail(tokens))
\* C15: _extract_sorting emits, in token order, one (field, direction) pair
\* for each comma-separated token of sort that matches the pattern, -1 for
\* the sign - and +1 otherwise, and skips the tokens that do not match it.
C15_SortingOfMatchingTokens ==
    Listed => last.passed.sorting = ExpectedSorting(split(RawOf("sort")))
\* The same of the sort strings whose tokens all match or have no match at
\* their start either.
C15_SortingWhenNoPartialMatch ==
    (Listed /\ \A i \in 1..Len(split(RawOf("sort"))) :
                  LET t == split(RawOf("sort"))[i]
                  IN  MatchesPattern(t) \/ re_match(t) = None)
        => last.passed.sorting = ExpectedSorting(split(RawOf("sort")))

====
